---- MODULE Spec2Model ----
(***************************************************************************)
(* Credit application service: registration, login, bearer tokens, and the *)
(* application ledger (submit, list, get, status update), as implemented   *)
(* in main.py, auth.py, schemas.py and models.py.                          *)
(*                                                                         *)
(* Strings are sequences of one-character strings, so that the length,     *)
(* whitespace, strip and digit-filter rules of the schemas are computed.   *)
(* Time is counted in ticks, TicksPerSecond ticks to a second: the clock   *)
(* (datetime.utcnow) has sub-second resolution, the "exp" claim of a token *)
(* has whole seconds.                                                      *)
(* A Decimal amount is an integer number of 1/AmountScale units.            *)
(***************************************************************************)
EXTENDS Integers, Sequences, FiniteSets, TLC

VARIABLES users, apps, tokens, now, request, response, pc, inflight

vars == <<users, apps, tokens, now, request, response, pc, inflight>>

-----------------------------------------------------------------------------
(* Bounds of the model *)

MaxApps == 2
MaxTokens == 1
Window == 1
NumBoots == 2
PhoneMargin == 1
NumWorkers == 2

-----------------------------------------------------------------------------
(* Resolution of the clock and of an amount: ticks to a second, parts to a *)
(* currency unit                                                          *)

TicksPerSecond == 2
AmountScale == 100

-----------------------------------------------------------------------------
(* Program constants *)

SecondsPerMinute == 60
DefaultExpireMinutes == 15
LoginExpireMinutes == 30
AmountLimit == 100000
UsernameMinLength == 3
UsernameMaxLength == 50
PasswordMinLength == 6
FullNameMinLength == 2
FullNameMaxLength == 100
PhoneMinDigits == 10
PhoneMaxDigits == 15

Minutes(m) == m * SecondsPerMinute * TicksPerSecond

-----------------------------------------------------------------------------
(* Strings *)

AdminName == <<"a", "d", "m", "i", "n">>
AdminPassword == <<"a", "d", "m", "i", "n", "1", "2", "3">>

(* str.isdigit: the ASCII digits and the digits of other scripts; "U+0663" *)
(* stands for one such character (ARABIC-INDIC DIGIT THREE)                *)
Digits == {"0", "1", "2", "3", "4", "5", "6", "7", "8", "9", "U+0663"}
Whitespace == {" "}

RECURSIVE LStrip(_)
LStrip(s) ==
    IF s # <<>> /\ Head(s) \in Whitespace THEN LStrip(Tail(s)) ELSE s

RECURSIVE RStrip(_)
RStrip(s) ==
    IF s # <<>> /\ s[Len(s)] \in Whitespace
    THEN RStrip(SubSeq(s, 1, Len(s) - 1))
    ELSE s

Strip(s) == RStrip(LStrip(s))

RECURSIVE FilterDigits(_)
FilterDigits(s) ==
    IF s = <<>> THEN <<>>
    ELSE IF Head(s) \in Digits
         THEN <<Head(s)>> \o FilterDigits(Tail(s))
         ELSE FilterDigits(Tail(s))

Contains(s, c) == \E i \in 1..Len(s) : s[i] = c

-----------------------------------------------------------------------------
(* schemas.py: request validation.  A request whose body fails these rules *)
(* never reaches its handler.                                              *)

(* UserBase.username: 3..50 characters, no spaces *)
validate_username(v) ==
    /\ Len(v) >= UsernameMinLength
    /\ Len(v) <= UsernameMaxLength
    /\ v # <<>>
    /\ ~Contains(v, " ")

(* UserCreate.password: at least 6 characters *)
validate_password(v) ==
    /\ Len(v) >= PasswordMinLength
    /\ v # <<>>

UserCreateValid(username, password) ==
    validate_username(username) /\ validate_password(password)

(* ApplicationBase.full_name: 2..100 characters, at least 2 after strip; *)
(* the stored value is the stripped one                                  *)
FullNameValid(v) ==
    /\ Len(v) >= FullNameMinLength
    /\ Len(v) <= FullNameMaxLength
    /\ Strip(v) # <<>>
    /\ Len(Strip(v)) >= FullNameMinLength

validate_full_name(v) == Strip(v)

(* ApplicationBase.amount: strictly positive *)
validate_amount(v) == v > 0

(* ApplicationBase.validate_phone: keep the digits, require 10..15 of them, *)
(* return them after a "+"                                                *)
PhoneValid(v) ==
    /\ v # <<>>
    /\ Len(FilterDigits(v)) >= PhoneMinDigits
    /\ Len(FilterDigits(v)) <= PhoneMaxDigits

(* the value returned as typed, behind the "+" *)
validate_phone_raw(v) == <<"+">> \o v

validate_phone(v) == <<"+">> \o FilterDigits(v)

ApplicationCreateValid(full_name, amount, phone) ==
    /\ FullNameValid(full_name)
    /\ validate_amount(amount)
    /\ PhoneValid(phone)

(* ApplicationUpdateStatus.status: Literal["new", "approved", "rejected"] *)
StatusLiteral == {"new", "approved", "rejected"}

(* the status typed as a plain str *)
ApplicationUpdateStatusAny(status) == TRUE

ApplicationUpdateStatusValid(status) == status \in StatusLiteral

-----------------------------------------------------------------------------
(* auth.py: passwords and tokens *)

(* pwd_context.hash: a salted digest; only verify relates it to the plaintext. *)
(* Every call draws a fresh salt: the model numbers them by the row the digest *)
(* is computed for.                                                            *)
FreshSalt == Len(users) + 1

get_password_hash(password, salt) == [plain |-> password, salt |-> salt]

(* every password taken for the right one *)
verify_password_any(plain_password, hashed_password) == TRUE

verify_password(plain_password, hashed_password) ==
    hashed_password.plain = plain_password

(* db.query(models.User).filter(username == name).first(), as <<>> or <<user>> *)
UserByName(name) ==
    LET hits == {i \in 1..Len(users) : users[i].username = name}
    IN IF hits = {} THEN <<>>
       ELSE <<users[CHOOSE i \in hits : \A j \in hits : i <= j]>>

(* <<>> stands for False, <<user>> for the user *)
authenticate_user(username, password) ==
    LET user == UserByName(username)
    IN IF user = <<>> THEN <<>>
       ELSE IF ~verify_password(password, user[1].hashed_password) THEN <<>>
       ELSE user

ToSeconds(t) == t \div TicksPerSecond

(* An Optional[timedelta] is <<>> (None) or <<d>>, d in ticks; a timedelta *)
(* is falsy when it is zero.  data is <<>> (no "sub") or <<username>>.     *)
Truthy(expires_delta) == expires_delta # <<>> /\ expires_delta[1] # 0

create_access_token(data, expires_delta) ==
    LET expire == IF Truthy(expires_delta)
                  THEN now + expires_delta[1]
                  ELSE now + Minutes(DefaultExpireMinutes)
    IN [kind |-> "jwt", sub |-> data, exp |-> ToSeconds(expire), sig |-> "good"]

(* the expiry not verified *)
JWTErrorNoExpiry(credentials) ==
    \/ credentials.kind # "jwt"
    \/ credentials.sig # "good"

(* jwt.decode: TRUE when it raises JWTError (not a JWT, bad signature, *)
(* or "exp" earlier than the current second)                           *)
JWTError(credentials) ==
    \/ credentials.kind # "jwt"
    \/ credentials.sig # "good"
    \/ credentials.exp < ToSeconds(now)

(* <<>> stands for the 401 credentials_exception, <<user>> for the user *)
get_current_user(credentials) ==
    IF JWTError(credentials) THEN <<>>
    ELSE IF credentials.sub = <<>> THEN <<>>
    ELSE UserByName(credentials.sub[1])

-----------------------------------------------------------------------------
(* The store (models.py) and what a response model lets out (schemas.py) *)

(* the column without its unique index *)
UniqueViolationOff(name) == FALSE

(* users.username is declared unique=True: an insert of a taken name fails *)
UniqueViolation(name) == UserByName(name) # <<>>

(* INSERT into users: the id is the next row id *)
InsertUser(username, hashed_password) ==
    [id |-> Len(users) + 1, username |-> username,
     hashed_password |-> hashed_password]

(* db.query(models.Application).filter(id == application_id).first() *)
ApplicationById(application_id) ==
    IF application_id \in 1..Len(apps) THEN <<apps[application_id]>> ELSE <<>>

(* response_model=schemas.User: the fields of UserBase and User *)
UserOut(u) ==
    [id |-> u.id, username |-> u.username, hashed_password |-> u.hashed_password]

(* response_model=schemas.Application: every column of the record *)
ApplicationOut(a) ==
    [id |-> a.id, full_name |-> a.full_name, amount |-> a.amount,
     phone |-> a.phone, status |-> a.status, created_at |-> a.created_at,
     user_id |-> a.user_id]

(* db.query(models.Application).all() *)
AllApplications == apps

(* the UPDATE without its WHERE clause *)
StoreStatusEverywhere(application_id, status) ==
    [i \in 1..Len(apps) |-> [apps[i] EXCEPT !.status = status]]

(* an application that has left "new" keeps its status *)
StoreStatusOnlyNew(application_id, status) ==
    IF apps[application_id].status = "new"
    THEN [apps EXCEPT ![application_id].status = status]
    ELSE apps

(* UPDATE applications SET status = ... WHERE id = application_id *)
StoreStatus(application_id, status) ==
    [apps EXCEPT ![application_id].status = status]

(* the filter on the owner left out *)
ApplicationsOfAnyone(user_id) == apps

(* db.query(models.Application).filter(user_id == id).all() *)
ApplicationsOf(user_id) == SelectSeq(apps, LAMBDA a : a.user_id = user_id)

ApplicationsOut(list) == [i \in 1..Len(list) |-> ApplicationOut(list[i])]

-----------------------------------------------------------------------------
(* Requests and responses *)

NoCredentials == [kind |-> "none", sub |-> <<>>, exp |-> 0, sig |-> "none"]

(* a request as received: when, what for, with which Authorization header *)
Request(op, credentials, name, id, status) ==
    [op |-> op, credentials |-> credentials, name |-> name, id |-> id,
     status |-> status, at |-> now]

Reply(code, detail, user, body) ==
    [code |-> code, detail |-> detail, user |-> user, body |-> body]

(* get_current_user's credentials_exception *)
Reply401 == Reply(401, "Could not validate credentials", <<>>, <<>>)

(* an Authorization header that is not "Bearer <token>" *)
OtherScheme == [kind |-> "basic", sub |-> <<>>, exp |-> 0, sig |-> "none"]

(* http_bearer = HTTPBearer(): a request without an Authorization header   *)
(* (NoCredentials), or with one of another scheme, is answered by the      *)
(* security class before get_current_user runs: with 403 by the releases   *)
(* of the framework that answer "forbidden" here, with 401 by the later    *)
(* ones, and with its own message                                          *)
BearerErrors(credentials) ==
    IF credentials = NoCredentials
    THEN {Reply(403, "Not authenticated", <<>>, <<>>),
          Reply(401, "Not authenticated", <<>>, <<>>)}
    ELSE {Reply(403, "Invalid authentication credentials", <<>>, <<>>),
          Reply(401, "Not authenticated", <<>>, <<>>)}

(* what a protected operation answers when no user is resolved *)
Unauthenticated(credentials) ==
    IF credentials \in {NoCredentials, OtherScheme}
    THEN BearerErrors(credentials)
    ELSE {Reply401}

(* the body failed its schema: the handler is not called *)
Reply422(user) == Reply(422, "validation error", user, <<>>)

(* The client keeps at most MaxTokens tokens, each with the time and the ttl *)
(* it was issued with; a new one may push an old one out.                    *)
Hold(jwt, ttl) ==
    LET w == [jwt |-> jwt, t0 |-> now, ttl |-> ttl]
    IN IF Cardinality(tokens \cup {w}) <= MaxTokens
       THEN {tokens \cup {w}}
       ELSE {(tokens \ {old}) \cup {w} : old \in tokens}

-----------------------------------------------------------------------------
(* main.py: the handlers *)

(* the check of the name left out *)
ReservedNameNone(username) == FALSE

(* register_user: the literal name "admin" is refused *)
ReservedName(username) == username = AdminName

(* the query for an existing user left out *)
UsernameTakenNever(username) == FALSE

(* register_user: existing_user is not None *)
UsernameTaken(username) == UserByName(username) # <<>>

(* the comparison made inclusive *)
AutoStatusInclusive(amount) ==
    IF amount >= AmountLimit * AmountScale THEN "rejected" ELSE "new"

(* create_application: the automatic check of the amount *)
AutoStatus(amount) ==
    IF amount > AmountLimit * AmountScale THEN "rejected" ELSE "new"

(* the ownership half of the check left out *)
ViewForbiddenNoOwner(current_user, application) == FALSE

(* the owner not let through *)
ViewForbiddenAdminOnly(current_user, application) ==
    current_user.username # AdminName

(* get_application: neither the admin nor the owner *)
ViewForbidden(current_user, application) ==
    /\ current_user.username # AdminName
    /\ application.user_id # current_user.id

(* the role check left out *)
UpdateForbiddenNobody(current_user) == FALSE

(* update_application_status: not the admin *)
UpdateForbidden(current_user) == current_user.username # AdminName

(* POST /register *)
register_user(username, password) ==
    /\ request' = Request("register_user", NoCredentials, username, 0, "")
    /\ IF ~UserCreateValid(username, password)
       THEN /\ response' = Reply422(<<>>)
            /\ UNCHANGED users
       ELSE IF ReservedName(username)
       THEN /\ response' = Reply(400, "admin name", <<>>, <<>>)
            /\ UNCHANGED users
       ELSE IF UsernameTaken(username)
       THEN /\ response' = Reply(400, "username taken", <<>>, <<>>)
            /\ UNCHANGED users
       ELSE IF UniqueViolation(username)
       THEN (* db.commit() raises: rollback, 500 *)
            /\ response' = Reply(500, "registration error", <<>>, <<>>)
            /\ UNCHANGED users
       ELSE LET db_user == InsertUser(username, get_password_hash(password, FreshSalt))
            IN /\ users' = Append(users, db_user)
               /\ response' = Reply(200, "", <<>>, <<UserOut(db_user)>>)
    /\ UNCHANGED <<apps, tokens, now, pc, inflight>>

(* POST /token *)
login_for_access_token(username, password) ==
    LET user == authenticate_user(username, password)
    IN /\ request' = Request("login_for_access_token", NoCredentials, username, 0, "")
       /\ IF user = <<>>
          THEN /\ response' = Reply(401, "bad username or password", <<>>, <<>>)
               /\ UNCHANGED tokens
          ELSE LET access_token_expires == <<Minutes(LoginExpireMinutes)>>
                   access_token ==
                       create_access_token(<<user[1].username>>, access_token_expires)
               IN /\ response' = Reply(200, "", <<>>,
                         <<[access_token |-> access_token, token_type |-> "bearer"]>>)
                  /\ tokens' \in Hold(access_token, access_token_expires)
       /\ UNCHANGED <<users, apps, now, pc, inflight>>

(* POST /applications *)
create_application(credentials, full_name, amount, phone) ==
    LET current_user == get_current_user(credentials)
    IN /\ request' = Request("create_application", credentials, <<>>, 0, "")
       /\ IF current_user = <<>>
          THEN /\ response' \in Unauthenticated(credentials)
               /\ UNCHANGED apps
          ELSE IF ~ApplicationCreateValid(full_name, amount, phone)
          THEN /\ response' = Reply422(current_user[1].username)
               /\ UNCHANGED apps
          ELSE LET status_result == AutoStatus(amount)
                   db_application ==
                       [id |-> Len(apps) + 1,
                        full_name |-> validate_full_name(full_name),
                        amount |-> amount,
                        phone |-> validate_phone(phone),
                        status |-> status_result,
                        created_at |-> now,
                        user_id |-> current_user[1].id]
               IN /\ Len(apps) < MaxApps
                  /\ apps' = Append(apps, db_application)
                  /\ response' = Reply(200, "", current_user[1].username,
                                       <<ApplicationOut(db_application)>>)
       /\ UNCHANGED <<users, tokens, now, pc, inflight>>

(* GET /applications *)
get_applications(credentials) ==
    LET current_user == get_current_user(credentials)
    IN /\ request' = Request("get_applications", credentials, <<>>, 0, "")
       /\ IF current_user = <<>>
          THEN response' \in Unauthenticated(credentials)
          ELSE LET applications ==
                       IF current_user[1].username = AdminName
                       THEN AllApplications
                       ELSE ApplicationsOf(current_user[1].id)
               IN response' = Reply(200, "", current_user[1].username,
                                       ApplicationsOut(applications))
       /\ UNCHANGED <<users, apps, tokens, now, pc, inflight>>

(* GET /applications/{application_id} *)
get_application(credentials, application_id) ==
    LET current_user == get_current_user(credentials)
        application == ApplicationById(application_id)
    IN /\ request' = Request("get_application", credentials, <<>>, application_id, "")
       /\ IF current_user = <<>>
          THEN response' \in Unauthenticated(credentials)
          ELSE IF application = <<>>
          THEN response' = Reply(404, "application not found",
                                 current_user[1].username, <<>>)
          ELSE IF ViewForbidden(current_user[1], application[1])
          THEN response' = Reply(403, "not allowed to view",
                                 current_user[1].username, <<>>)
          ELSE response' = Reply(200, "", current_user[1].username,
                                 <<ApplicationOut(application[1])>>)
       /\ UNCHANGED <<users, apps, tokens, now, pc, inflight>>

(* PUT /applications/{application_id}/status *)
update_application_status(credentials, application_id, status) ==
    LET current_user == get_current_user(credentials)
        application == ApplicationById(application_id)
    IN /\ request' = Request("update_application_status", credentials, <<>>,
                             application_id, status)
       /\ IF current_user = <<>>
          THEN /\ response' \in Unauthenticated(credentials)
               /\ UNCHANGED apps
          ELSE IF ~ApplicationUpdateStatusValid(status)
          THEN /\ response' = Reply422(current_user[1].username)
               /\ UNCHANGED apps
          ELSE IF UpdateForbidden(current_user[1])
          THEN /\ response' = Reply(403, "admin only",
                                    current_user[1].username, <<>>)
               /\ UNCHANGED apps
          ELSE IF application = <<>>
          THEN /\ response' = Reply(404, "application not found",
                                    current_user[1].username, <<>>)
               /\ UNCHANGED apps
          ELSE /\ apps' = StoreStatus(application_id, status)
               /\ response' = Reply(200, "", current_user[1].username,
                      <<ApplicationOut([application[1] EXCEPT !.status = status])>>)
       /\ UNCHANGED <<users, tokens, now, pc, inflight>>

-----------------------------------------------------------------------------
(* auth.py: a token issued by a direct call of create_access_token *)
issue_token(data, expires_delta) ==
    /\ tokens' \in Hold(create_access_token(data, expires_delta), expires_delta)
    /\ UNCHANGED <<users, apps, now, request, response, pc, inflight>>

(* The clock moves on to a later instant. *)
Advance(t) ==
    /\ t > now
    /\ now' = t
    /\ UNCHANGED <<users, apps, tokens, request, response, pc, inflight>>

-----------------------------------------------------------------------------
(* main.py: the write handlers statement by statement, as they run in the   *)
(* threads and processes of the server against the shared store.  A worker *)
(* serves one request at a time and holds:                                 *)
(*   at      "idle", "ready" (the checks are passed, the object is built   *)
(*           or loaded, nothing is written), "committed" (db.commit()      *)
(*           has returned)                                                 *)
(*   code    0 while the request runs, else the code it ended with         *)
(*   row     the object built by the handler, <<>> or <<object>>; its id   *)
(*           is 0 until the insert gives it one                            *)
(*   loaded  the application as the query of the handler read it           *)

Workers == 1..NumWorkers

Idle ==
    [at |-> "idle", code |-> 0, op |-> "none", credentials |-> NoCredentials,
     name |-> <<>>, id |-> 0, status |-> "", user |-> <<>>, loaded |-> <<>>,
     row |-> <<>>]

Free(w) == inflight[w].at = "idle" \/ inflight[w].code # 0

(* the unit of work of the session writes a column only when the value set *)
(* differs from the value loaded                                           *)
NetChange(old, new) == old # new

(* register_user up to db.add(db_user) *)
register_user_begin(w, username, password) ==
    /\ Free(w)
    /\ IF ~UserCreateValid(username, password)
       THEN /\ response' = Reply422(<<>>)
            /\ request' = Request("register_user", NoCredentials, username, 0, "")
            /\ inflight' = [inflight EXCEPT ![w] = Idle]
       ELSE IF ReservedName(username)
       THEN /\ response' = Reply(400, "admin name", <<>>, <<>>)
            /\ request' = Request("register_user", NoCredentials, username, 0, "")
            /\ inflight' = [inflight EXCEPT ![w] = Idle]
       ELSE IF UsernameTaken(username)
       THEN /\ response' = Reply(400, "username taken", <<>>, <<>>)
            /\ request' = Request("register_user", NoCredentials, username, 0, "")
            /\ inflight' = [inflight EXCEPT ![w] = Idle]
       ELSE /\ inflight' = [inflight EXCEPT ![w] =
                   [Idle EXCEPT !.at = "ready", !.op = "register_user",
                       !.name = username,
                       !.row = <<[id |-> 0, username |-> username,
                                  hashed_password |->
                                      get_password_hash(password, FreshSalt)]>>]]
            /\ UNCHANGED <<request, response>>
    /\ UNCHANGED <<users, apps, tokens, now, pc>>

(* create_application up to db.add(db_application) *)
create_application_begin(w, credentials, full_name, amount, phone) ==
    LET current_user == get_current_user(credentials)
    IN /\ Free(w)
       /\ IF current_user = <<>>
          THEN /\ response' \in Unauthenticated(credentials)
               /\ request' = Request("create_application", credentials, <<>>, 0, "")
               /\ inflight' = [inflight EXCEPT ![w] = Idle]
          ELSE IF ~ApplicationCreateValid(full_name, amount, phone)
          THEN /\ response' = Reply422(current_user[1].username)
               /\ request' = Request("create_application", credentials, <<>>, 0, "")
               /\ inflight' = [inflight EXCEPT ![w] = Idle]
          ELSE /\ inflight' = [inflight EXCEPT ![w] =
                      [Idle EXCEPT !.at = "ready", !.op = "create_application",
                          !.credentials = credentials,
                          !.user = current_user[1].username,
                          !.row = <<[id |-> 0,
                                     full_name |-> validate_full_name(full_name),
                                     amount |-> amount,
                                     phone |-> validate_phone(phone),
                                     status |-> AutoStatus(amount),
                                     created_at |-> 0,
                                     user_id |-> current_user[1].id]>>]]
               /\ UNCHANGED <<request, response>>
       /\ UNCHANGED <<users, apps, tokens, now, pc>>

(* update_application_status up to application.status = status_update.status *)
update_application_status_begin(w, credentials, application_id, status) ==
    LET current_user == get_current_user(credentials)
        application == ApplicationById(application_id)
        req == Request("update_application_status", credentials, <<>>,
                       application_id, status)
    IN /\ Free(w)
       /\ IF current_user = <<>>
          THEN /\ response' \in Unauthenticated(credentials)
               /\ request' = req
               /\ inflight' = [inflight EXCEPT ![w] = Idle]
          ELSE IF ~ApplicationUpdateStatusValid(status)
          THEN /\ response' = Reply422(current_user[1].username)
               /\ request' = req
               /\ inflight' = [inflight EXCEPT ![w] = Idle]
          ELSE IF UpdateForbidden(current_user[1])
          THEN /\ response' = Reply(403, "admin only",
                                    current_user[1].username, <<>>)
               /\ request' = req
               /\ inflight' = [inflight EXCEPT ![w] = Idle]
          ELSE IF application = <<>>
          THEN /\ response' = Reply(404, "application not found",
                                    current_user[1].username, <<>>)
               /\ request' = req
               /\ inflight' = [inflight EXCEPT ![w] = Idle]
          ELSE /\ inflight' = [inflight EXCEPT ![w] =
                      [Idle EXCEPT !.at = "ready",
                          !.op = "update_application_status",
                          !.credentials = credentials,
                          !.user = current_user[1].username,
                          !.id = application_id, !.status = status,
                          !.loaded = application]]
               /\ UNCHANGED <<request, response>>
       /\ UNCHANGED <<users, apps, tokens, now, pc>>

(* the request of a worker, as it is answered *)
RequestOf(r) == Request(r.op, r.credentials, r.name, r.id, r.status)

ErrorDetail(op) ==
    IF op = "register_user" THEN "registration error"
    ELSE IF op = "create_application" THEN "application error"
    ELSE "status update error"

(* db.commit(): the insert or the update is written.  The insert of a taken *)
(* username raises; the except branch rolls back and answers 500.          *)
db_commit(w) ==
    LET r == inflight[w]
    IN /\ r.at = "ready"
       /\ r.code = 0
       /\ IF r.op = "register_user"
          THEN IF UniqueViolation(r.name)
               THEN /\ inflight' = [inflight EXCEPT ![w].code = 500]
                    /\ response' = Reply(500, ErrorDetail(r.op), <<>>, <<>>)
                    /\ request' = RequestOf(r)
                    /\ UNCHANGED <<users, apps>>
               ELSE LET db_user == InsertUser(r.name, r.row[1].hashed_password)
                    IN /\ users' = Append(users, db_user)
                       /\ inflight' = [inflight EXCEPT ![w].at = "committed",
                                                       ![w].row = <<db_user>>]
                       /\ UNCHANGED <<apps, request, response>>
          ELSE IF r.op = "create_application"
          THEN LET db_application ==
                       [r.row[1] EXCEPT !.id = Len(apps) + 1, !.created_at = now]
               IN /\ Len(apps) < MaxApps
                  /\ apps' = Append(apps, db_application)
                  /\ inflight' = [inflight EXCEPT ![w].at = "committed",
                                                  ![w].row = <<db_application>>]
                  /\ UNCHANGED <<users, request, response>>
          ELSE /\ apps' = IF NetChange(r.loaded[1].status, r.status)
                          THEN StoreStatus(r.id, r.status)
                          ELSE apps
               /\ inflight' = [inflight EXCEPT ![w].at = "committed"]
               /\ UNCHANGED <<users, request, response>>
       /\ UNCHANGED <<tokens, now, pc>>

(* db.refresh(): the row is read back and returned *)
db_refresh(w) ==
    LET r == inflight[w]
    IN /\ r.at = "committed"
       /\ r.code = 0
       /\ response' =
              IF r.op = "register_user"
              THEN Reply(200, "", <<>>, <<UserOut(users[r.row[1].id])>>)
              ELSE IF r.op = "create_application"
              THEN Reply(200, "", r.user, <<ApplicationOut(apps[r.row[1].id])>>)
              ELSE Reply(200, "", r.user, <<ApplicationOut(apps[r.id])>>)
       /\ request' = RequestOf(r)
       /\ inflight' = [inflight EXCEPT ![w] = Idle]
       /\ UNCHANGED <<users, apps, tokens, now, pc>>

(* the store fails under db.commit() or under db.refresh(): the except *)
(* branch calls db.rollback() and answers 500                          *)
db_fail(w) ==
    LET r == inflight[w]
    IN /\ r.at \in {"ready", "committed"}
       /\ r.code = 0
       /\ response' = Reply(500, ErrorDetail(r.op), <<>>, <<>>)
       /\ request' = RequestOf(r)
       /\ inflight' = [inflight EXCEPT ![w].code = 500]
       /\ UNCHANGED <<users, apps, tokens, now, pc>>

-----------------------------------------------------------------------------
(* schemas.py: ApplicationBase parses a phone (the value of request.name); *)
(* an accepted value is returned normalised                                *)
parse_phone ==
    /\ request.op = "validate_phone"
    /\ response.code = 0
    /\ response' = IF PhoneValid(request.name)
                   THEN Reply(200, "", <<>>, <<validate_phone(request.name)>>)
                   ELSE Reply422(<<>>)
    /\ UNCHANGED <<users, apps, tokens, now, request, pc, inflight>>

(* the normalised value is parsed again, as when a stored application is *)
(* read back through schemas.Application                                 *)
reparse_phone ==
    /\ request.op = "validate_phone"
    /\ response.code = 200
    /\ Len(response.body) = 1
    /\ response' = IF PhoneValid(response.body[1])
                   THEN Reply(200, "", <<>>,
                              <<response.body[1], validate_phone(response.body[1])>>)
                   ELSE Reply(422, "validation error", <<>>, <<response.body[1], <<>>>>)
    /\ UNCHANGED <<users, apps, tokens, now, request, pc, inflight>>

-----------------------------------------------------------------------------
(* main.py: create_admin_user, the startup hook of each process.  The query *)
(* and the insert are separate statements against the shared store.  A      *)
(* process is at "start", at "absent" (its query found no admin), or ended  *)
(* with one of the three printed messages: "created", "exists", "error".    *)

BootProcs == 1..NumBoots

(* admin = db.query(models.User).filter(username == "admin").first() *)
boot_query(p) ==
    /\ pc[p] = "start"
    /\ pc' = [pc EXCEPT ![p] =
                 IF UserByName(AdminName) = <<>> THEN "absent" ELSE "exists"]
    /\ UNCHANGED <<users, apps, tokens, now, request, response, inflight>>

(* db.add(admin_user); db.commit(): the commit raises on a taken username, *)
(* the except branch prints the error and the hook ends                    *)
boot_insert(p) ==
    /\ pc[p] = "absent"
    /\ IF UniqueViolation(AdminName)
       THEN /\ pc' = [pc EXCEPT ![p] = "error"]
            /\ UNCHANGED users
       ELSE /\ pc' = [pc EXCEPT ![p] = "created"]
            /\ users' = Append(users,
                   InsertUser(AdminName, get_password_hash(AdminPassword, FreshSalt)))
    /\ UNCHANGED <<apps, tokens, now, request, response, inflight>>

-----------------------------------------------------------------------------
(* Inputs *)

Bob == <<"b", "o", "b">>
Eve == <<"e", "v", "e">>
Secret1 == <<"s", "e", "c", "r", "e", "t", "1">>
Secret2 == <<"s", "e", "c", "r", "e", "t", "2">>
Short == <<"s", "h", "o", "r", "t">>

(* username, password *)
OneUserInputs == {<<AdminName, Secret1>>, <<Bob, Secret1>>}
FewUserInputs == OneUserInputs \cup {<<Eve, Secret1>>}
UserInputs ==
    FewUserInputs \cup
    {<<AdminName, Short>>, <<Bob, Secret2>>, <<Bob, Short>>,
     <<<<"a", "b">>, Secret1>>, <<<<"a", " ", "b">>, Secret1>>}
LoginInputs ==
    {<<AdminName, AdminPassword>>, <<AdminName, Secret1>>, <<Bob, Secret1>>,
     <<Bob, Secret2>>, <<Eve, Secret1>>}

Al == <<" ", "A", "l", " ">>
Phone ==
    <<"8", " ", "(", "9", "9", "9", ")", " ", "1", "2", "3", "-", "4", "5",
      "-", "6", "7">>

(* amounts: 100000 exactly, the nearest amounts below and above it *)
(* (99999.99 and 100000.01 at a scale of 100), 150000, the smallest *)
(* amount, and zero                                                 *)
AtLimit == 100000 * AmountScale
JustBelow == AtLimit - 1
JustAbove == AtLimit + 1
WellAbove == 150000 * AmountScale

(* full_name, amount, phone *)
BadApplicationInputs ==
    {<<<<"A", " ">>, AtLimit, Phone>>, <<Al, 0, Phone>>,
     <<Al, AtLimit, <<"1", "2", "3">>>>}
OneApplicationInputs == {<<Al, AtLimit, Phone>>, <<Al, 0, Phone>>}
ApplicationInputs ==
    {<<Al, a, Phone>> : a \in {1, JustBelow, AtLimit, JustAbove, WellAbove}}
    \cup BadApplicationInputs

(* phones: a run of 9..16 digits, bare or with one separator put in at any *)
(* place; the example of the documentation; the normalised example; the   *)
(* empty string                                                           *)
DigitChar == <<"1", "2", "3", "4", "5", "6", "7", "8", "9", "0">>
DigitRun(n) == [i \in 1..n |-> DigitChar[((i - 1) % 10) + 1]]
Separators ==
    {<<>>, <<" ">>, <<"+">>, <<"-">>, <<"(", ")">>, <<"x">>, <<"U+0663">>}
PhoneInputs ==
    UNION {{SubSeq(DigitRun(n), 1, k) \o sep \o SubSeq(DigitRun(n), k + 1, n) :
               k \in 0..n, sep \in Separators} :
           n \in (PhoneMinDigits - PhoneMargin)..(PhoneMaxDigits + PhoneMargin)}
    \cup {Phone, <<"+">> \o FilterDigits(Phone), <<>>}

StatusInputs == StatusLiteral \cup {"closed"}
IdInputs == 1..(MaxApps + 1)

(* What a caller can put in the Authorization header: a token it holds, or *)
(* one it made up (no secret key: the signature does not verify)           *)
Garbage == [kind |-> "garbage", sub |-> <<>>, exp |-> 0, sig |-> "none"]
Forged ==
    [kind |-> "jwt", sub |-> <<AdminName>>,
     exp |-> ToSeconds(now + Minutes(LoginExpireMinutes)), sig |-> "bad"]
Credentials == {w.jwt : w \in tokens} \cup {Garbage, Forged}

(* data and expires_delta of a direct create_access_token call *)
DataInputs == {<<>>, <<AdminName>>, <<Bob>>}
DeltaInputs ==
    {<<>>, <<0>>, <<TicksPerSecond>>, <<Minutes(LoginExpireMinutes)>>}

(* the instants the clock is read at: around the issue of a token and around *)
(* the two lifetimes                                                         *)
Instants ==
    {t \in 0..(Minutes(LoginExpireMinutes) + 2 * Window) :
        \E base \in {0, Minutes(DefaultExpireMinutes), Minutes(LoginExpireMinutes)} :
            /\ t >= base - Window
            /\ t <= base + 2 * Window}

Register(inputs) == \E r \in inputs : register_user(r[1], r[2])
Login == \E r \in LoginInputs : login_for_access_token(r[1], r[2])
Submit(inputs) ==
    \E c \in Credentials, r \in inputs : create_application(c, r[1], r[2], r[3])
List == \E c \in Credentials : get_applications(c)
Get == \E c \in Credentials, i \in IdInputs : get_application(c, i)
Update ==
    \E c \in Credentials, i \in IdInputs, st \in StatusInputs :
        update_application_status(c, i, st)

-----------------------------------------------------------------------------
(* The service after startup: the admin and one user submit, read and *)
(* review applications                                                *)

Init ==
    /\ users = <<[id |-> 1, username |-> AdminName,
                   hashed_password |-> get_password_hash(AdminPassword, 1)]>>
    /\ apps = <<>>
    /\ tokens = {}
    /\ now = 0
    /\ request = Request("none", NoCredentials, <<>>, 0, "")
    /\ response = Reply(0, "", <<>>, <<>>)
    /\ pc = [p \in BootProcs |-> IF p = 1 THEN "created" ELSE "exists"]
    /\ inflight = [w \in Workers |-> Idle]

Next ==
    \/ Register(OneUserInputs)
    \/ Login
    \/ Submit(OneApplicationInputs)
    \/ List
    \/ Get
    \/ Update

Spec == Init /\ [][Next]_vars

(* Three users reading each other's applications, before any review *)
NextView ==
    \/ Register(FewUserInputs)
    \/ Login
    \/ Submit(OneApplicationInputs)
    \/ List
    \/ Get

SpecView == Init /\ [][NextView]_vars

(* Submissions of every amount, before any review *)
NextAmount ==
    \/ Register(OneUserInputs)
    \/ Login
    \/ Submit(ApplicationInputs)
    \/ List

SpecAmount == Init /\ [][NextAmount]_vars

(* Registration and login with every username and password *)
NextAccounts ==
    \/ Register(UserInputs)
    \/ Login
    \/ List

SpecAccounts == Init /\ [][NextAccounts]_vars

(* Tokens of every lifetime, presented while the clock runs *)
NextToken ==
    \/ \E d \in DataInputs, e \in DeltaInputs : issue_token(d, e)
    \/ \E t \in Instants : Advance(t)
    \/ Login
    \/ List

SpecToken == Init /\ [][NextToken]_vars

(* Every protected operation, called with good and bad tokens *)
LaterInstants == {Minutes(LoginExpireMinutes) + TicksPerSecond}

NextAuth ==
    \/ \E d \in DataInputs, e \in {<<>>, <<Minutes(LoginExpireMinutes)>>} :
           issue_token(d, e)
    \/ \E t \in LaterInstants : Advance(t)
    \/ \E c \in Credentials : create_application(c, Al, AtLimit, Phone)
    \/ List
    \/ \E c \in Credentials : get_application(c, 1)
    \/ \E c \in Credentials : update_application_status(c, 1, "approved")

SpecAuth == Init /\ [][NextAuth]_vars

(* Every protected operation, called with and without a bearer header *)
Headers == Credentials \cup {NoCredentials, OtherScheme}

NextHeader ==
    \/ \E d \in DataInputs, e \in {<<>>, <<Minutes(LoginExpireMinutes)>>} :
           issue_token(d, e)
    \/ \E t \in LaterInstants : Advance(t)
    \/ \E c \in Headers : create_application(c, Al, AtLimit, Phone)
    \/ \E c \in Headers : get_applications(c)
    \/ \E c \in Headers : get_application(c, 1)
    \/ \E c \in Headers : update_application_status(c, 1, "approved")

SpecHeader == Init /\ [][NextHeader]_vars

(* Startup of NumBoots processes against an empty store, while users register *)
InitBoot ==
    /\ users = <<>>
    /\ apps = <<>>
    /\ tokens = {}
    /\ now = 0
    /\ request = Request("none", NoCredentials, <<>>, 0, "")
    /\ response = Reply(0, "", <<>>, <<>>)
    /\ pc = [p \in BootProcs |-> "start"]
    /\ inflight = [w \in Workers |-> Idle]

NextBoot ==
    \/ \E p \in BootProcs : boot_query(p)
    \/ \E p \in BootProcs : boot_insert(p)
    \/ Register(UserInputs)
    \/ Login

SpecBoot == InitBoot /\ [][NextBoot]_vars

(* Registrations of one name by NumWorkers workers, while NumBoots startup *)
(* hooks run against the empty store                                      *)
RaceInputs == {<<AdminName, Secret1>>, <<Bob, Secret1>>, <<Bob, Secret2>>}

NextRace ==
    \/ \E p \in BootProcs : boot_query(p)
    \/ \E p \in BootProcs : boot_insert(p)
    \/ \E w \in Workers, r \in RaceInputs : register_user_begin(w, r[1], r[2])
    \/ \E w \in Workers : db_commit(w)
    \/ \E w \in Workers : db_refresh(w)

SpecRace == InitBoot /\ [][NextRace]_vars

(* Status updates of NumWorkers workers on the applications of the admin *)
NextConcurrent ==
    \/ Login
    \/ \E c \in Credentials : create_application(c, Al, AtLimit, Phone)
    \/ \E w \in Workers, c \in Credentials, st \in StatusLiteral :
           update_application_status_begin(w, c, 1, st)
    \/ \E w \in Workers : db_commit(w)
    \/ \E w \in Workers : db_refresh(w)

SpecConcurrent == Init /\ [][NextConcurrent]_vars

(* The write handlers of NumWorkers workers, with a store that may fail *)
(* under a commit or under a refresh                                   *)
NextFailing ==
    \/ Login
    \/ \E w \in Workers : register_user_begin(w, Bob, Secret1)
    \/ \E w \in Workers, c \in Credentials :
           create_application_begin(w, c, Al, AtLimit, Phone)
    \/ \E w \in Workers, c \in Credentials, st \in {"new", "approved"} :
           update_application_status_begin(w, c, 1, st)
    \/ \E w \in Workers : db_commit(w)
    \/ \E w \in Workers : db_refresh(w)
    \/ \E w \in Workers : db_fail(w)

SpecFailing == Init /\ [][NextFailing]_vars

(* The admin submits applications at and above the limit and reviews them *)
ReviewInputs == {<<Al, AtLimit, Phone>>, <<Al, JustAbove, Phone>>}

NextReview ==
    \/ Login
    \/ Submit(ReviewInputs)
    \/ Get
    \/ Update

SpecReview == Init /\ [][NextReview]_vars

(* A phone of every shape, parsed and parsed again *)
InitPhone ==
    /\ users = <<>>
    /\ apps = <<>>
    /\ tokens = {}
    /\ now = 0
    /\ request \in {Request("validate_phone", NoCredentials, p, 0, "") :
                        p \in PhoneInputs}
    /\ response = Reply(0, "", <<>>, <<>>)
    /\ pc = [p \in BootProcs |-> "exists"]
    /\ inflight = [w \in Workers |-> Idle]

NextPhone ==
    \/ parse_phone
    \/ reparse_phone

SpecPhone == InitPhone /\ [][NextPhone]_vars

-----------------------------------------------------------------------------
(* Properties *)

Protected ==
    {"create_application", "get_applications", "get_application",
     "update_application_status"}

(* the caller of the last request, as a user record; only used when the *)
(* request was authenticated                                            *)
Caller == CHOOSE u \in {users[i] : i \in 1..Len(users)} : u.username = response.user

Authenticated == request.op \in Protected /\ response.user # <<>>

Existing(id) == id \in 1..Len(apps)

(* C1: an application is created with status "rejected" when its amount is *)
(* above 100000 and "new" otherwise (100000 itself gives "new"); the       *)
(* record is stored with that status and the response shows it; without a  *)
(* review, every stored application still has the status its amount gives. *)
C1_AutoDecision ==
    /\ \A i \in 1..Len(apps) :
           /\ apps[i].amount > 0
           /\ apps[i].amount > 100000 * AmountScale => apps[i].status = "rejected"
           /\ apps[i].amount <= 100000 * AmountScale => apps[i].status = "new"
    /\ (request.op = "create_application" /\ response.code = 200) =>
           /\ Len(response.body) = 1
           /\ Existing(response.body[1].id)
           /\ apps[response.body[1].id] = response.body[1]
           /\ response.body[1].user_id = Caller.id

(* an application of exactly 100000 has just been created as "new", next to *)
(* one of 99999.99 or of 150000.00                                          *)
C1_Witness ==
    /\ request.op = "create_application"
    /\ response.code = 200
    /\ response.body[1].amount = AtLimit
    /\ response.body[1].status = "new"
    /\ \E i \in 1..Len(apps) :
           apps[i].amount \in {JustBelow, WellAbove}

(* C2: no response carries a password hash. *)
C2_NoHashInResponse ==
    \A i \in 1..Len(response.body) :
        "hashed_password" \notin DOMAIN response.body[i]

(* C3: get_application by an authenticated caller: an id that does not    *)
(* exist gives 404, whoever asks; an existing application of another user *)
(* gives a non-admin 403; the admin and the owner get the record.         *)
C3_GetOrder ==
    (request.op = "get_application" /\ Authenticated) =>
        /\ ~Existing(request.id) =>
               response.code = 404 /\ response.body = <<>>
        /\ (/\ Existing(request.id)
            /\ response.user # AdminName
            /\ apps[request.id].user_id # Caller.id) =>
               response.code = 403 /\ response.body = <<>>
        /\ (/\ Existing(request.id)
            /\ \/ response.user = AdminName
               \/ apps[request.id].user_id = Caller.id) =>
               response.code = 200 /\ response.body = <<apps[request.id]>>

(* a non-admin who owns nothing asked for an id that does not exist, while *)
(* other applications exist, and got 404                                   *)
C3_Witness ==
    /\ request.op = "get_application"
    /\ response.user \notin {<<>>, AdminName}
    /\ response.code = 404
    /\ Len(apps) > 0
    /\ \A i \in 1..Len(apps) : apps[i].user_id # Caller.id

(* C4: update_application_status called by an authenticated non-admin with *)
(* a well-formed body gives 403, for an own, a foreign and a missing id,   *)
(* and never succeeds; the status of a stored application changes only in  *)
(* a step that is a successful update of that application by the admin.    *)
C4_NonAdminDenied ==
    (/\ request.op = "update_application_status"
     /\ Authenticated
     /\ response.user # AdminName) =>
        /\ response.code # 200
        /\ response.body = <<>>
        /\ request.status \in StatusLiteral => response.code = 403

C4_StatusChange ==
    \A i \in 1..Len(apps) :
        apps'[i].status # apps[i].status =>
            /\ request'.op = "update_application_status"
            /\ request'.id = i
            /\ response'.user = AdminName
            /\ response'.code = 200

C4_AdminOnly == [](C4_NonAdminDenied) /\ [][C4_StatusChange]_vars

(* a non-admin was refused the update of its own application *)
C4_Witness ==
    /\ request.op = "update_application_status"
    /\ response.user \notin {<<>>, AdminName}
    /\ response.code = 403
    /\ Existing(request.id)
    /\ apps[request.id].user_id = Caller.id

(* C5: get_applications returns to a non-admin exactly the applications  *)
(* whose user_id is the caller's id, and to the admin all applications.  *)
Listed == {response.body[i] : i \in 1..Len(response.body)}

C5_ListScope ==
    (request.op = "get_applications" /\ Authenticated) =>
        /\ response.code = 200
        /\ response.user = AdminName =>
               Listed = {apps[i] : i \in 1..Len(apps)}
        /\ response.user # AdminName =>
               Listed = {apps[i] : i \in {j \in 1..Len(apps) :
                                             apps[j].user_id = Caller.id}}
        /\ Cardinality(Listed) = Len(response.body)

(* a non-admin listed its applications and got one, while another user's *)
(* application is in the store                                           *)
C5_Witness ==
    /\ request.op = "get_applications"
    /\ response.user \notin {<<>>, AdminName}
    /\ Len(response.body) = 1
    /\ Len(apps) = 2

(* C6: a token issued at t0 with ttl T (15 minutes when none is passed) is *)
(* accepted at every time before t0+T and refused at every time after it;  *)
(* "exp" counts whole seconds, so "after" is taken from the next full      *)
(* second on.                                                              *)
Lifetime(w) == IF w.ttl = <<>> THEN Minutes(15) ELSE w.ttl[1]

C6_TokenLifetime ==
    \A w \in tokens :
        (/\ request.op = "get_applications"
         /\ request.credentials = w.jwt
         /\ w.jwt.sub = <<AdminName>>
         /\ request.at >= w.t0) =>
            /\ request.at < w.t0 + Lifetime(w) => response.code = 200
            /\ request.at >= w.t0 + Lifetime(w) + TicksPerSecond =>
                   response.code = 401

(* C7: register_user with the name "admin" fails, whatever the password  *)
(* and the users in the store, and changes no user; no step other than   *)
(* the startup hook adds, removes or changes a user named "admin".       *)
AdminRows == {users[i] : i \in {j \in 1..Len(users) : users[j].username = AdminName}}

C7_Refused ==
    (request.op = "register_user" /\ request.name = AdminName) =>
        /\ response.code \in {400, 422}
        /\ response.body = <<>>

C7_Step ==
    pc' = pc =>
        /\ AdminRows' = AdminRows
        /\ (request'.op = "register_user" /\ request'.name = AdminName) =>
               users' = users

C7_AdminNotRegistrable == [](C7_Refused) /\ [][C7_Step]_vars

(* "admin" was refused with 400 while the store held no user of that name *)
C7_Witness ==
    /\ request.op = "register_user"
    /\ request.name = AdminName
    /\ response.code = 400
    /\ AdminRows = {}
    /\ Len(users) > 0

(* C8: register_user called with a well-formed body whose username already *)
(* has a record fails with 400 and leaves every user record as it was.     *)
C8_Step ==
    \A r \in UserInputs :
        (/\ UserCreateValid(r[1], r[2])
         /\ \E i \in 1..Len(users) : users[i].username = r[1]
         /\ register_user(r[1], r[2])) =>
            /\ response'.code = 400
            /\ response'.body = <<>>
            /\ users' = users

C8_DuplicateRefused == [][C8_Step]_vars

(* a second registration of a non-admin name was refused with 400 *)
C8_Witness ==
    /\ request.op = "register_user"
    /\ request.name = Bob
    /\ response.code = 400
    /\ Cardinality({i \in 1..Len(users) : users[i].username = Bob}) = 1

(* C9: a protected operation called with a token that is not a JWT, has a *)
(* bad signature, no "sub", an "exp" earlier than the current second, or  *)
(* names no user, ends with 401 and no data, and changes no user and no   *)
(* application.                                                           *)
BadCredentials(c, t) ==
    \/ c.kind # "jwt"
    \/ c.sig # "good"
    \/ c.sub = <<>>
    \/ c.exp < t \div TicksPerSecond
    \/ ~\E i \in 1..Len(users) : users[i].username = c.sub[1]

C9_Refused ==
    (request.op \in Protected /\ BadCredentials(request.credentials, request.at)) =>
        /\ response.code = 401
        /\ response.body = <<>>
        /\ response.user = <<>>

C9_Step ==
    (request'.op \in Protected /\ response'.code = 401) =>
        users' = users /\ apps' = apps

C9_IdentityFirst == [](C9_Refused) /\ [][C9_Step]_vars

(* with an application in the store, each kind of bad token was refused: *)
(* here an expired token of the admin on a status update                 *)
C9_Witness ==
    /\ request.op = "update_application_status"
    /\ response.code = 401
    /\ request.credentials.sig = "good"
    /\ request.credentials.sub = <<AdminName>>
    /\ Existing(1)

(* C10: once a startup hook has ended, exactly one user is named "admin"; *)
(* a user named "admin" is never changed or removed, and a hook whose     *)
(* query finds it changes no user.                                        *)
Ended(p) == pc[p] \in {"created", "exists", "error"}

C10_OneAdmin ==
    (\E p \in BootProcs : Ended(p)) =>
        Cardinality({i \in 1..Len(users) : users[i].username = AdminName}) = 1

C10_Step ==
    /\ \A i \in 1..Len(users) :
           users[i].username = AdminName =>
               Len(users') >= i /\ users'[i] = users[i]
    /\ \A p \in BootProcs :
           (pc[p] = "start" /\ pc'[p] = "exists") => users' = users

C10_BootstrapIdempotent == [](C10_OneAdmin) /\ [][C10_Step]_vars

(* two hooks raced: one created the admin, the other's insert failed, *)
(* and a user registered meanwhile                                    *)
C10_Witness ==
    /\ \E p, q \in BootProcs : pc[p] = "created" /\ pc[q] = "error"
    /\ Len(users) > 1
    /\ Cardinality({i \in 1..Len(users) : users[i].username = AdminName}) = 1

(* C11: an accepted phone normalises to "+" followed by its 10 to 15 digits *)
(* in their order; the normalised value is accepted again and normalises   *)
(* to itself; the documented example gives +89991234567.                   *)
DigitPlaces(p) == {i \in 1..Len(p) : p[i] \in Digits}

(* the k-th digit of p *)
DigitAt(p, k) ==
    p[CHOOSE i \in DigitPlaces(p) :
          Cardinality({j \in DigitPlaces(p) : j <= i}) = k]

C11_PhoneIdempotent ==
    (request.op = "validate_phone" /\ response.code # 0) =>
        /\ response.code \in {200, 422}
        /\ response.code = 200 =>
               LET p == request.name
                   out == response.body[1]
                   n == Cardinality(DigitPlaces(p))
               IN /\ n >= 10 /\ n <= 15
                  /\ Len(out) = n + 1
                  /\ out[1] = "+"
                  /\ \A k \in 1..n : out[k + 1] = DigitAt(p, k)
                  /\ Len(response.body) = 2 => response.body[2] = out
        /\ Len(response.body) = 2 => response.code = 200
        /\ request.name = Phone =>
               /\ response.code = 200
               /\ response.body[1] =
                      <<"+", "8", "9", "9", "9", "1", "2", "3", "4", "5", "6", "7">>

(* the documented example was normalised and its result parsed again *)
C11_Witness ==
    /\ request.op = "validate_phone"
    /\ request.name = Phone
    /\ response.code = 200
    /\ Len(response.body) = 2
    /\ response.body[2] = response.body[1]

(* C12: every stored application has one of the statuses "new",          *)
(* "approved", "rejected"; a creation stores "new" or "rejected"; an     *)
(* update whose value is outside these three does not succeed and leaves *)
(* every application as it was.                                          *)
C12_Closed ==
    /\ \A i \in 1..Len(apps) : apps[i].status \in {"new", "approved", "rejected"}
    /\ (request.op = "create_application" /\ response.code = 200) =>
           response.body[1].status \in {"new", "rejected"}
    /\ (/\ request.op = "update_application_status"
        /\ request.status \notin {"new", "approved", "rejected"}) =>
           response.code \notin {0, 200} /\ response.body = <<>>

C12_Step ==
    /\ (/\ request'.op = "update_application_status"
        /\ request'.status \notin {"new", "approved", "rejected"}) =>
           apps' = apps
    /\ Len(apps') > Len(apps) =>
           apps'[Len(apps')].status \in {"new", "rejected"}

C12_StatusClosedSet == [](C12_Closed) /\ [][C12_Step]_vars

(* the admin sent "closed" for an existing, automatically rejected *)
(* application and was refused                                     *)
C12_Witness ==
    /\ request.op = "update_application_status"
    /\ request.status = "closed"
    /\ response.user = AdminName
    /\ Existing(request.id)
    /\ apps[request.id].amount = JustAbove
    /\ apps[request.id].status = "rejected"
    /\ response.code = 422

(* C13: a login succeeds exactly when a user of the given name exists and *)
(* the password is the one its hash was made from; the token then names   *)
(* that user as its subject; every failed login, for an unknown name or   *)
(* for a wrong password, gets one and the same 401 response.              *)
C13_Step ==
    \A r \in LoginInputs :
        login_for_access_token(r[1], r[2]) =>
            LET known == \E i \in 1..Len(users) :
                             /\ users[i].username = r[1]
                             /\ users[i].hashed_password.plain = r[2]
            IN /\ response'.code = 200 <=> known
               /\ response'.code = 200 =>
                      /\ Len(response'.body) = 1
                      /\ response'.body[1].access_token.sub = <<r[1]>>
                      /\ response'.body[1].access_token.sig = "good"
               /\ response'.code # 200 =>
                      response' = [code |-> 401,
                                   detail |-> "bad username or password",
                                   user |-> <<>>, body |-> <<>>]
               /\ users' = users

C13_LoginIssuesToken == [][C13_Step]_vars

(* a registered user has just been refused for a wrong password, with the *)
(* response an unknown name gets                                          *)
C13_Witness ==
    /\ request.op = "login_for_access_token"
    /\ request.name = Bob
    /\ \E i \in 1..Len(users) :
           users[i].username = Bob /\ users[i].hashed_password.plain = Secret1
    /\ response = [code |-> 401, detail |-> "bad username or password",
                   user |-> <<>>, body |-> <<>>]
    /\ ~\E i \in 1..Len(users) : users[i].username = Eve

(* C14: no two user records have the same username, however the steps of   *)
(* concurrent registrations and startup hooks interleave; a registration   *)
(* that reaches its commit when the name has been taken meanwhile ends     *)
(* with an error and adds no record.                                       *)
C14_Unique ==
    \A i, j \in 1..Len(users) :
        users[i].username = users[j].username => i = j

C14_Step ==
    \A w \in Workers :
        (/\ inflight[w].op = "register_user"
         /\ inflight[w].at = "ready"
         /\ inflight[w].code = 0
         /\ inflight'[w] # inflight[w]
         /\ \E i \in 1..Len(users) : users[i].username = inflight[w].name) =>
            /\ users' = users
            /\ inflight'[w].code = 500
            /\ response'.code = 500
            /\ response'.body = <<>>

C14_UniqueUsernames == [](C14_Unique) /\ [][C14_Step]_vars

(* two registrations of one unused name passed the check together: one *)
(* created the record, the other failed at its commit                  *)
C14_Witness ==
    /\ \E w \in Workers :
           /\ inflight[w].op = "register_user"
           /\ inflight[w].name = Bob
           /\ inflight[w].code = 500
           /\ inflight[w].row[1].id = 0
    /\ Cardinality({i \in 1..Len(users) : users[i].username = Bob}) = 1

(* C15: a successful update_application_status leaves every user and every *)
(* other application as they were and changes no field of its application  *)
(* but the status; no step removes an application, renumbers it or gives   *)
(* it another owner.                                                       *)
C15_Step ==
    /\ (request'.op = "update_application_status" /\ response'.code = 200) =>
           /\ users' = users
           /\ Len(apps') = Len(apps)
           /\ \A i \in 1..Len(apps) :
                  /\ apps'[i].full_name = apps[i].full_name
                  /\ apps'[i].amount = apps[i].amount
                  /\ apps'[i].phone = apps[i].phone
                  /\ apps'[i].created_at = apps[i].created_at
                  /\ i # request'.id => apps'[i] = apps[i]
    /\ \A i \in 1..Len(apps) :
           /\ Len(apps') >= i
           /\ apps'[i].id = apps[i].id
           /\ apps'[i].user_id = apps[i].user_id

C15_UpdateFrame == [][C15_Step]_vars

(* the admin changed the status of one of two applications, the other one *)
(* being a user's and of another status                                   *)
C15_Witness ==
    /\ request.op = "update_application_status"
    /\ response.code = 200
    /\ Len(apps) = 2
    /\ \E i \in 1..Len(apps) :
           /\ i # request.id
           /\ apps[i].user_id # apps[request.id].user_id
           /\ apps[i].status # apps[request.id].status

(* C16: whatever the status of an existing application, a call of the admin *)
(* with any of the three statuses succeeds, and the application then has    *)
(* that status: no status is final, neither the automatic "rejected" nor    *)
(* "approved".                                                              *)
C16_AnyTransition ==
    (/\ request.op = "update_application_status"
     /\ response.user = AdminName
     /\ Existing(request.id)
     /\ request.status \in {"new", "approved", "rejected"}) =>
        /\ response.code = 200
        /\ apps[request.id].status = request.status
        /\ response.body = <<apps[request.id]>>

(* an application above the limit, rejected when it was created, has just *)
(* been set back to "new", next to one that was approved and rejected     *)
C16_Witness ==
    /\ request.op = "update_application_status"
    /\ request.status = "new"
    /\ response.code = 200
    /\ apps[request.id].amount = JustAbove
    /\ \E i \in 1..Len(apps) :
           apps[i].amount = AtLimit /\ apps[i].status = "rejected"

(* C17: when status updates of one application run together, each commit *)
(* leaves in the store the status its own request asked for (so that the *)
(* status after all of them is that of the last commit), and each update *)
(* that passed the checks ends with 200.                                 *)
C17_Step ==
    \A w \in Workers :
        (/\ inflight[w].op = "update_application_status"
         /\ inflight[w].code = 0) =>
            /\ (inflight[w].at = "ready" /\ inflight'[w].at = "committed") =>
                   apps'[inflight[w].id].status = inflight[w].status
            /\ (inflight[w].at = "committed" /\ inflight'[w] # inflight[w]) =>
                   response'.code = 200

C17_LastWriteWins == [][C17_Step]_vars

(* C18: a write request that ended with a server error has left nothing in *)
(* the store: no user and no application of its own, and no status changed *)
(* by it.                                                                  *)
C18_Atomic ==
    \A w \in Workers :
        inflight[w].code = 500 =>
            /\ inflight[w].op = "register_user" =>
                   ~\E i \in 1..Len(users) : users[i] = inflight[w].row[1]
            /\ inflight[w].op = "create_application" =>
                   ~\E i \in 1..Len(apps) : apps[i].id = inflight[w].row[1].id
            /\ inflight[w].op = "update_application_status" =>
                   ~(/\ inflight[w].at = "committed"
                     /\ inflight[w].status # inflight[w].loaded[1].status)

(* C19: a protected operation called without an Authorization header, with *)
(* a header of another scheme, or with a token that is malformed, has a    *)
(* bad signature, no subject, is expired or names no user, gets one and    *)
(* the same response: 401 with the message of get_current_user.            *)
C19_UniformRefusal ==
    (/\ request.op \in Protected
     /\ \/ request.credentials.kind \in {"none", "basic"}
        \/ BadCredentials(request.credentials, request.at)) =>
        response = [code |-> 401, detail |-> "Could not validate credentials",
                    user |-> <<>>, body |-> <<>>]

(* C20: the user_id of every application is the id of a user in the store, *)
(* the one named by the token of the request that submitted it; a caller   *)
(* with a valid token who asks for an application of its own gets it, not  *)
(* 403 or 404, whatever its status has become.                             *)
C20_OwnerReads ==
    /\ \A i \in 1..Len(apps) :
           \E j \in 1..Len(users) : users[j].id = apps[i].user_id
    /\ (request.op = "create_application" /\ response.code = 200) =>
           \E j \in 1..Len(users) :
               /\ <<users[j].username>> = request.credentials.sub
               /\ apps[Len(apps)].user_id = users[j].id
    /\ \A j \in 1..Len(users) :
           (/\ request.op = "get_application"
            /\ response.user = users[j].username
            /\ Existing(request.id)
            /\ apps[request.id].user_id = users[j].id) =>
               /\ response.code = 200
               /\ response.body[1].id = request.id
               /\ response.body[1].user_id = users[j].id
               /\ response.body[1].status = apps[request.id].status

(* a user read its own application after the admin had approved it *)
C20_Witness ==
    /\ request.op = "get_application"
    /\ response.user = Bob
    /\ response.code = 200
    /\ response.body[1].status = "approved"
    /\ \E j \in 1..Len(users) :
           users[j].username = Bob /\ response.body[1].user_id = users[j].id

====
